---- MODULE Spec2Model ----
(***************************************************************************)
(* Model of the RAG question/answer session engine (insights, operations   *)
(* and marketing variants of init_chat / stream_answer_generator /         *)
(* get_chat_history), of the refresh-credential lifecycle of AuthService   *)
(* (login / refresh_token / logout over Redis) and of UserService.create.  *)
(* Each streaming request carries the transaction state of its database    *)
(* session; accounts can be deactivated or soft-deleted after a login.     *)
(*                                                                         *)
(* Text (questions, fragments, answers) is a sequence of characters, so    *)
(* "".join(buffer) is modelled by what it does: flattening a list of       *)
(* fragments.  A nullable column is a sequence of length 0 (NULL) or 1.    *)
(***************************************************************************)
EXTENDS Integers, Sequences, FiniteSets, TLC

\* ------------------------------------------------------------------------
\* Bounds of the model
\* ------------------------------------------------------------------------
MaxTurns == 2        \* rows init_chat may create
MaxStreams == 2      \* stream_answer_generator calls opened
MaxChunks == 2       \* non-empty fragments the model delivers in one stream
MaxAuthCalls == 4    \* login and refresh_token calls begun
MaxNewUsers == 2     \* rows UserService.create may insert

\* ------------------------------------------------------------------------
\* Program constants
\* ------------------------------------------------------------------------
HistoryLimit == 5    \* limit=5 passed to get_recent_history

\* ------------------------------------------------------------------------
\* Value sets
\* ------------------------------------------------------------------------
Procs == {"s1", "s2"}                 \* concurrent streaming requests
Clients == {"c1", "c2"}               \* concurrent refresh_token requests
Fragments == {<<>>, <<"a">>, <<"b">>} \* delta.content of one chunk ("" included)
StatusValues == {"PENDING", "GENERATING", "COMPLETED", "FAILED"}

NULL == <<>>
Some(x) == <<x>>

\* The user_id and marketplace_id columns of the report rows: every report
\* of the model belongs to user u1 in marketplace m1.
ReportOwner ==
  [r \in {1, 2, 3} |-> [user_id |-> "u1", marketplace_id |-> "m1"]]

\* Requests a client may send to init_chat (user_id, marketplace_id,
\* report_id and question all come from the request body).
ChatInitRequests ==
  { [user_id |-> "u1", marketplace_id |-> "m1", report_id |-> 1, question |-> <<"p">>],
    [user_id |-> "u1", marketplace_id |-> "m1", report_id |-> 1, question |-> <<"q">>],
    [user_id |-> "u2", marketplace_id |-> "m1", report_id |-> 1, question |-> <<"p">>],
    [user_id |-> "u1", marketplace_id |-> "m2", report_id |-> 1, question |-> <<"p">>],
    [user_id |-> "u1", marketplace_id |-> "m1", report_id |-> 2, question |-> <<"p">>],
    [user_id |-> "u1", marketplace_id |-> "m1", report_id |-> 3, question |-> <<"p">>],
    [user_id |-> "u1", marketplace_id |-> "m1", report_id |-> 4, question |-> <<"p">>] }

\* Requests a client may send to get_chat_history.
ChatHistoryRequests ==
  { [user_id |-> "u1", marketplace_id |-> "m1", report_id |-> 1],
    [user_id |-> "u2", marketplace_id |-> "m1", report_id |-> 1],
    [user_id |-> "u1", marketplace_id |-> "m2", report_id |-> 1],
    [user_id |-> "u1", marketplace_id |-> "m1", report_id |-> 2] }

VARIABLES
  domain,          \* the domain variant serving the requests
  reports,         \* report table: report id -> mcp_data ("NONE" = no such row)
  qa,              \* *_report_qa table: sequence of rows, the id is the index
  gen,             \* per streaming request: the state of its async generator
  llm_calls,       \* number of chat.completions.create calls issued
  streams_opened,  \* number of stream_answer_generator calls opened
  reply,           \* outcome of the last non-streaming call
  users,           \* user table: user id -> row
  redis,           \* Redis: key -> value (refresh_token:<token> -> user id)
  next_token,      \* the next value secrets.token_urlsafe returns
  rf,              \* per client: the state of its refresh_token call
  auth_reply,      \* outcome of the last login / logout call
  auth_calls,      \* number of login and refresh_token calls begun
  redeemed,        \* refresh tokens a refresh_token call has returned success for
  logged_out,      \* refresh tokens a logout call has returned for
  uc               \* per client: the state of its UserService.create call

qaVars == <<domain, reports, qa, gen, llm_calls, streams_opened, reply>>
authVars ==
  <<users, redis, next_token, rf, auth_reply, auth_calls, redeemed, logged_out, uc>>
vars == <<qaVars, authVars>>

\* ------------------------------------------------------------------------
\* Helpers
\* ------------------------------------------------------------------------
Reverse(s) == [i \in 1..Len(s) |-> s[Len(s) + 1 - i]]

\* "".join(full_answer_buffer)
RECURSIVE Join(_)
Join(buffer) ==
  IF buffer = <<>> THEN <<>> ELSE Head(buffer) \o Join(Tail(buffer))

\* Mutant: only None counts as an absent context ("is None").
FalsyNoneOnly(mcp_data) == mcp_data = "NONE"

\* Python truthiness of mcp_data: None and {} are falsy.
Falsy(mcp_data) == mcp_data \in {"NONE", "EMPTY"}

\* ORDER BY created_at [ASC | DESC] LIMIT n over the row ids S of table tbl:
\* every order the database may return (rows with equal created_at come in
\* any order).  dir = 1 is ascending, dir = -1 descending.
RECURSIVE order_by_created_at(_, _, _, _)
order_by_created_at(tbl, S, dir, n) ==
  IF S = {} \/ n = 0 THEN {<<>>}
  ELSE UNION { { <<x>> \o t : t \in order_by_created_at(tbl, S \ {x}, dir, n - 1) } :
               x \in { y \in S : \A z \in S :
                          dir * (tbl[z].created_at - tbl[y].created_at) >= 0 } }

\* ------------------------------------------------------------------------
\* Repository (InsightsQARepository and its two siblings)
\* ------------------------------------------------------------------------
get_report_context(report_id) ==
  IF report_id \in DOMAIN reports THEN reports[report_id] ELSE "NONE"

get_qa_by_id(tbl, qa_id) ==
  IF qa_id \in DOMAIN tbl THEN Some(tbl[qa_id]) ELSE NULL

\* Mutant: the record is created already GENERATING.
create_qa_record_generating(id, req, created_at) ==
  [id |-> id,
   user_id |-> req.user_id,
   marketplace_id |-> req.marketplace_id,
   report_id |-> req.report_id,
   question |-> req.question,
   status |-> "GENERATING",
   answer |-> NULL,
   created_at |-> created_at]

create_qa_record(id, req, created_at) ==
  [id |-> id,
   user_id |-> req.user_id,
   marketplace_id |-> req.marketplace_id,
   report_id |-> req.report_id,
   question |-> req.question,
   status |-> "PENDING",
   answer |-> NULL,
   created_at |-> created_at]

\* Mutant: the status update also clears the answer.
update_status_resets_answer(tbl, qa_id, status) ==
  [i \in DOMAIN tbl |-> IF tbl[i].id = qa_id
                        THEN [tbl[i] EXCEPT !.status = status, !.answer = NULL]
                        ELSE tbl[i]]

update_status(tbl, qa_id, status) ==
  [i \in DOMAIN tbl |-> IF tbl[i].id = qa_id
                        THEN [tbl[i] EXCEPT !.status = status]
                        ELSE tbl[i]]

update_answer(tbl, qa_id, answer, status) ==
  [i \in DOMAIN tbl |-> IF tbl[i].id = qa_id
                        THEN [tbl[i] EXCEPT !.answer = Some(answer), !.status = status]
                        ELSE tbl[i]]

\* Mutant: the query returns the finished turns only.
get_chat_history_completed_only(tbl, user_id, marketplace_id, report_id) ==
  LET S == { i \in DOMAIN tbl : /\ tbl[i].report_id = report_id
                               /\ tbl[i].user_id = user_id
                               /\ tbl[i].marketplace_id = marketplace_id
                               /\ tbl[i].status = "COMPLETED" }
  IN  { [k \in 1..Len(o) |-> tbl[o[k]]] :
          o \in order_by_created_at(tbl, S, 1, Cardinality(S)) }

\* The possible results of get_chat_history, each a sequence of rows.
get_chat_history(tbl, user_id, marketplace_id, report_id) ==
  LET S == { i \in DOMAIN tbl : /\ tbl[i].report_id = report_id
                               /\ tbl[i].user_id = user_id
                               /\ tbl[i].marketplace_id = marketplace_id }
  IN  { [k \in 1..Len(o) |-> tbl[o[k]]] :
          o \in order_by_created_at(tbl, S, 1, Cardinality(S)) }

\* Mutant: the query without its LIMIT.
get_recent_history_unlimited(tbl, report_id, current_qa_id, limit) ==
  LET S == { i \in DOMAIN tbl : /\ tbl[i].report_id = report_id
                               /\ tbl[i].id # current_qa_id
                               /\ tbl[i].status = "COMPLETED"
                               /\ tbl[i].answer # NULL }
  IN  { Reverse([k \in 1..Len(o) |-> tbl[o[k]]]) :
          o \in order_by_created_at(tbl, S, -1, Cardinality(S)) }

\* The possible results of get_recent_history, each a sequence of rows.
get_recent_history(tbl, report_id, current_qa_id, limit) ==
  LET S == { i \in DOMAIN tbl : /\ tbl[i].report_id = report_id
                               /\ tbl[i].id # current_qa_id
                               /\ tbl[i].status = "COMPLETED"
                               /\ tbl[i].answer # NULL }
  IN  { Reverse([k \in 1..Len(o) |-> tbl[o[k]]]) :
          o \in order_by_created_at(tbl, S, -1, limit) }

\* ------------------------------------------------------------------------
\* Frames of the session stream output protocol (SSE "data: ..." lines)
\* ------------------------------------------------------------------------
ContentFrame(content) == [type |-> "content", content |-> content, error |-> ""]
DoneFrame == [type |-> "DONE", content |-> <<>>, error |-> ""]
ErrorFrame(msg) == [type |-> "ERROR", content |-> <<>>, error |-> msg]

\* The code raised by init_chat on a falsy context, per domain variant.
ContextMissingCode ==
  CASE domain = "insights" -> "insights.context_missing"
    [] domain = "operations" -> "operations.context_missing"
    [] domain = "marketing" -> "marketing.report_not_found"

\* The frame text of step 2 of stream_answer_generator, per domain variant.
ContextMissingFrame ==
  IF domain = "marketing" THEN ErrorFrame("Report context missing")
  ELSE ErrorFrame("Report context data missing")

\* The message list of step 4: system message, history pairs, question.
HistoryMessages(history_records) ==
  LET Pair(i) == <<[role |-> "user", content |-> history_records[i].question],
                   [role |-> "assistant", content |-> history_records[i].answer[1]]>>
      F[i \in 0..Len(history_records)] ==
        IF i = 0 THEN <<>>
        ELSE IF /\ history_records[i].question # <<>>
                /\ history_records[i].answer # NULL
                /\ history_records[i].answer[1] # <<>>
             THEN F[i - 1] \o Pair(i)
             ELSE F[i - 1]
  IN  F[Len(history_records)]

BuildMessages(mcp_data, history_records, question) ==
  <<[role |-> "system", content |-> <<mcp_data>>]>>
    \o HistoryMessages(history_records)
    \o <<[role |-> "user", content |-> question]>>

\* ------------------------------------------------------------------------
\* State of one streaming request
\* ------------------------------------------------------------------------
\* in_tx: the AsyncSession of the request has a transaction open (it begins
\* one at the first execute after its creation or after a commit, and holds
\* its connection until commit, rollback or close).
IdleGen ==
  [pc |-> "idle", qa_id |-> 0, qa_record |-> NULL, mcp_data |-> "NONE",
   history_records |-> <<>>, messages |-> <<>>, full_answer_buffer |-> <<>>,
   frames |-> <<>>, in_tx |-> FALSE]

\* The generator has returned, raised or been closed: its local variables
\* are gone and the session of the request is closed (get_db leaves its
\* "async with", which ends any open transaction); the frames the client
\* received and the qa_id of the request remain observable.
Ended(g, pc) == [IdleGen EXCEPT !.pc = pc, !.qa_id = g.qa_id, !.frames = g.frames]

Finished == {"idle", "end", "raised", "closed"}

\* ------------------------------------------------------------------------
\* Credential store: users, Redis, tokens
\* ------------------------------------------------------------------------
hash(password) == <<"argon2", password>>
verify_password_async(password, hashed_password) == hash(password) = hashed_password

RedisKey(refresh_token) == <<"refresh_token", refresh_token>>
EmptyRedis == [k \in {} |-> ""]
redis_get(store, key) == IF key \in DOMAIN store THEN Some(store[key]) ELSE NULL
redis_delete(store, key) == [k \in DOMAIN store \ {key} |-> store[k]]
redis_setex(store, key, value) ==
  [k \in DOMAIN store \cup {key} |-> IF k = key THEN value ELSE store[k]]

create_access_token(subject) == [sub |-> subject]
NoToken == [code |-> "none", access_token |-> [sub |-> ""], refresh_token |-> 0]
IdleCall ==
  [pc |-> "idle", refresh_token |-> 0, user_id |-> "", replay |-> FALSE,
   after_logout |-> FALSE, result |-> NoToken]

\* UserCreate without its password; IdleCreate: no create call in progress.
NoUser == [phone_number |-> "", email |-> NULL, username |-> NULL, password |-> ""]
IdleCreate == [pc |-> "idle", obj_in |-> NoUser, code |-> "none"]

InitAuth ==
  /\ users = ("u1" :> [phone_number |-> "111", email |-> Some("a@x"), username |-> NULL,
                        hashed_password |-> hash("pw1"),
                        is_active |-> TRUE, is_deleted |-> FALSE]
               @@ "u2" :> [phone_number |-> "222", email |-> NULL, username |-> Some("neo"),
                           hashed_password |-> hash("pw2"),
                           is_active |-> FALSE, is_deleted |-> FALSE]
               @@ "u3" :> [phone_number |-> "333", email |-> NULL, username |-> NULL,
                           hashed_password |-> hash("pw3"),
                           is_active |-> TRUE, is_deleted |-> TRUE])
  /\ uc = [c \in Clients |-> IdleCreate]
  /\ redis = EmptyRedis
  /\ next_token = 1
  /\ rf = [c \in Clients |-> IdleCall]
  /\ auth_reply = [op |-> "none", result |-> NoToken]
  /\ auth_calls = 0
  /\ redeemed = {}
  /\ logged_out = {}

InitQA ==
  /\ domain = "insights"
  /\ reports = (1 :> "DATA" @@ 2 :> "DATA" @@ 3 :> "EMPTY")
  /\ qa = <<>>
  /\ gen = [p \in Procs |-> IdleGen]
  /\ llm_calls = 0
  /\ streams_opened = 0
  /\ reply = [op |-> "none", report_id |-> 0, code |-> "none", qa_id |-> 0, rows |-> <<>>]

Init == InitQA /\ InitAuth

\* ------------------------------------------------------------------------
\* init_chat and get_chat_history
\* ------------------------------------------------------------------------
\* now() of the inserting transaction: the clock has advanced or not since
\* the previous insert.
CreatedAtChoices ==
  IF qa = <<>> THEN {1}
  ELSE {qa[Len(qa)].created_at, qa[Len(qa)].created_at + 1}

\* Mutant: the record is created before the context is looked at.
init_chat_insert_first(req) ==
  /\ \E t \in CreatedAtChoices :
       qa' = Append(qa, create_qa_record(Len(qa) + 1, req, t))
  /\ reply' = [op |-> "init_chat", report_id |-> req.report_id,
               code |-> IF Falsy(get_report_context(req.report_id))
                        THEN ContextMissingCode ELSE "ok",
               qa_id |-> IF Falsy(get_report_context(req.report_id))
                         THEN 0 ELSE Len(qa) + 1,
               rows |-> <<>>]
  /\ UNCHANGED <<domain, reports, gen, llm_calls, streams_opened, authVars>>

init_chat(req) ==
  /\ IF Falsy(get_report_context(req.report_id))
     THEN /\ reply' = [op |-> "init_chat", report_id |-> req.report_id,
                       code |-> ContextMissingCode, qa_id |-> 0, rows |-> <<>>]
          /\ qa' = qa
     ELSE /\ \E t \in CreatedAtChoices :
               qa' = Append(qa, create_qa_record(Len(qa) + 1, req, t))
          /\ reply' = [op |-> "init_chat", report_id |-> req.report_id,
                       code |-> "ok", qa_id |-> Len(qa) + 1, rows |-> <<>>]
  /\ UNCHANGED <<domain, reports, gen, llm_calls, streams_opened, authVars>>

chat_history(req) ==
  /\ \E rows \in get_chat_history(qa, req.user_id, req.marketplace_id, req.report_id) :
       reply' = [op |-> "get_chat_history", report_id |-> req.report_id,
                 code |-> "ok", qa_id |-> 0,
                 rows |-> [k \in 1..Len(rows) |->
                             [id |-> rows[k].id, question |-> rows[k].question,
                              answer |-> rows[k].answer, status |-> rows[k].status,
                              created_at |-> rows[k].created_at]]]
  /\ UNCHANGED <<domain, reports, qa, gen, llm_calls, streams_opened, authVars>>

\* ------------------------------------------------------------------------
\* stream_answer_generator, one action per await / yield of the generator
\* ------------------------------------------------------------------------
qaFrame == <<domain, reports, llm_calls, reply, authVars>>

\* The router hands a new generator to StreamingResponse.
stream_open(p, qa_id) ==
  /\ gen[p].pc \in Finished
  /\ gen' = [gen EXCEPT ![p] = [IdleGen EXCEPT !.pc = "load", !.qa_id = qa_id]]
  /\ streams_opened' = streams_opened + 1
  /\ UNCHANGED <<qaFrame, qa>>

\* Mutant: an unknown id is reported and then handled as a failure of the
\* stream instead of returning.
stream_load_continues(p) ==
  /\ gen[p].pc = "load"
  /\ LET qa_record == get_qa_by_id(qa, gen[p].qa_id)
     IN  gen' = [gen EXCEPT ![p] =
                   IF qa_record = NULL
                   THEN [@ EXCEPT !.frames = Append(@, ErrorFrame("Session not found")),
                                  !.pc = "fail"]
                   ELSE [@ EXCEPT !.qa_record = qa_record, !.in_tx = TRUE,
                                  !.pc = "ctx"]]
  /\ UNCHANGED <<qaFrame, qa, streams_opened>>

\* Step 1: load the turn; unknown id -> one ERROR frame, return.
stream_load(p) ==
  /\ gen[p].pc = "load"
  /\ LET qa_record == get_qa_by_id(qa, gen[p].qa_id)
     IN  gen' = [gen EXCEPT ![p] =
                   IF qa_record = NULL
                   THEN Ended([@ EXCEPT !.frames = Append(@, ErrorFrame("Session not found"))],
                              "end")
                   ELSE [@ EXCEPT !.qa_record = qa_record, !.in_tx = TRUE,
                                  !.pc = "ctx"]]
  /\ UNCHANGED <<qaFrame, qa, streams_opened>>

\* Mutant: a missing context is reported and then handled as a failure of
\* the stream (the turn is marked FAILED).
stream_context_marks_failed(p) ==
  /\ gen[p].pc = "ctx"
  /\ LET mcp_data == get_report_context(gen[p].qa_record[1].report_id)
     IN  gen' = [gen EXCEPT ![p] =
                   IF Falsy(mcp_data)
                   THEN [@ EXCEPT !.frames = Append(@, ContextMissingFrame), !.pc = "fail"]
                   ELSE [@ EXCEPT !.mcp_data = mcp_data, !.pc = "gen"]]
  /\ UNCHANGED <<qaFrame, qa, streams_opened>>

\* Step 2: re-fetch the context; falsy -> one ERROR frame, return.
stream_context(p) ==
  /\ gen[p].pc = "ctx"
  /\ LET mcp_data == get_report_context(gen[p].qa_record[1].report_id)
     IN  gen' = [gen EXCEPT ![p] =
                   IF Falsy(mcp_data)
                   THEN Ended([@ EXCEPT !.frames = Append(@, ContextMissingFrame)], "end")
                   ELSE [@ EXCEPT !.mcp_data = mcp_data, !.pc = "gen"]]
  /\ UNCHANGED <<qaFrame, qa, streams_opened>>

\* Mutant: the GENERATING write is left out.
stream_generating_skipped(p) ==
  /\ gen[p].pc = "gen"
  /\ qa' = qa
  /\ gen' = [gen EXCEPT ![p].pc = "hist"]
  /\ UNCHANGED <<qaFrame, streams_opened>>

\* Step 3: update_status(qa_id, "GENERATING") and commit.
stream_generating(p) ==
  /\ gen[p].pc = "gen"
  /\ qa' = update_status(qa, gen[p].qa_id, "GENERATING")
  /\ gen' = [gen EXCEPT ![p].in_tx = FALSE, ![p].pc = "hist"]
  /\ UNCHANGED <<qaFrame, streams_opened>>

\* Step 4: build the messages; insights and operations read the history
\* window, marketing sends the system message and the question only.  The
\* read is an execute on the session with no commit, rollback or close
\* after it.
stream_history(p) ==
  /\ gen[p].pc = "hist"
  /\ \E h \in IF domain = "marketing" THEN {<<>>}
              ELSE get_recent_history(qa, gen[p].qa_record[1].report_id,
                                      gen[p].qa_id, HistoryLimit) :
       gen' = [gen EXCEPT ![p].history_records = h,
                          ![p].messages = BuildMessages(gen[p].mcp_data, h,
                                                        gen[p].qa_record[1].question),
                          ![p].in_tx = (domain # "marketing"),
                          ![p].pc = "call"]
  /\ UNCHANGED <<qaFrame, qa, streams_opened>>

\* A read or the GENERATING commit fails: steps 1-4 are outside the try
\* block, the exception leaves the generator.
stream_db_error(p) ==
  /\ gen[p].pc \in {"load", "ctx", "gen", "hist"}
  /\ ~(gen[p].pc = "hist" /\ domain = "marketing")
  /\ gen' = [gen EXCEPT ![p] = Ended(@, "raised")]
  /\ UNCHANGED <<qaFrame, qa, streams_opened>>

\* Step 5: chat.completions.create(stream=True); it returns the stream, or
\* raises APIError ("api") or another exception ("sys"), which the except
\* clauses turn into an ERROR frame carrying the exception's text.
LlmErrorFrame(kind) ==
  IF kind = "api" THEN ErrorFrame("AI Service Error: model")
  ELSE ErrorFrame("System Error: model")

StoreErrorFrame == ErrorFrame("System Error: store")

stream_call(p, result) ==
  /\ gen[p].pc = "call"
  /\ llm_calls' = llm_calls + 1
  /\ gen' = [gen EXCEPT ![p] =
               IF result = "ok" THEN [@ EXCEPT !.pc = "recv"]
               ELSE [@ EXCEPT !.frames = Append(@, LlmErrorFrame(result)),
                              !.pc = "fail"]]
  /\ UNCHANGED <<domain, reports, reply, qa, streams_opened, authVars>>

\* Mutant: a new fragment is put in front of the frames already emitted.
stream_chunk_prepends(p, content) ==
  /\ gen[p].pc = "recv"
  /\ gen' = [gen EXCEPT ![p] =
               IF content # <<>>
               THEN [@ EXCEPT !.full_answer_buffer = Append(@, content),
                              !.frames = <<ContentFrame(content)>> \o @]
               ELSE @]
  /\ UNCHANGED <<qaFrame, qa, streams_opened>>

\* async for chunk in stream: a falsy delta.content is skipped, any other
\* is appended to the buffer and yielded as a content frame.
stream_chunk(p, content) ==
  /\ gen[p].pc = "recv"
  /\ gen' = [gen EXCEPT ![p] =
               IF content # <<>>
               THEN [@ EXCEPT !.full_answer_buffer = Append(@, content),
                              !.frames = Append(@, ContentFrame(content))]
               ELSE @]
  /\ UNCHANGED <<qaFrame, qa, streams_opened>>

\* The model stream raises while it is consumed.
stream_model_error(p, kind) ==
  /\ gen[p].pc = "recv"
  /\ gen' = [gen EXCEPT ![p].frames = Append(@, LlmErrorFrame(kind)),
                        ![p].pc = "fail"]
  /\ UNCHANGED <<qaFrame, qa, streams_opened>>

\* Mutant: DONE is yielded as soon as the model stream ends, before the
\* final write.
stream_model_end_done_first(p) ==
  /\ gen[p].pc = "recv"
  /\ gen' = [gen EXCEPT ![p].frames = Append(@, DoneFrame), ![p].pc = "final"]
  /\ UNCHANGED <<qaFrame, qa, streams_opened>>

\* The model stream ends normally.
stream_model_end(p) ==
  /\ gen[p].pc = "recv"
  /\ gen' = [gen EXCEPT ![p].pc = "final"]
  /\ UNCHANGED <<qaFrame, qa, streams_opened>>

\* Mutant: the final write stores the fragments newest first.
stream_complete_reversed(p) ==
  /\ gen[p].pc = "final"
  /\ qa' = update_answer(qa, gen[p].qa_id,
                         Join(Reverse(gen[p].full_answer_buffer)), "COMPLETED")
  /\ gen' = [gen EXCEPT ![p].in_tx = FALSE, ![p].pc = "done"]
  /\ UNCHANGED <<qaFrame, streams_opened>>

\* Step 6: update_answer(qa_id, "".join(buffer), "COMPLETED") and commit.
stream_complete(p) ==
  /\ gen[p].pc = "final"
  /\ qa' = update_answer(qa, gen[p].qa_id, Join(gen[p].full_answer_buffer), "COMPLETED")
  /\ gen' = [gen EXCEPT ![p].in_tx = FALSE, ![p].pc = "done"]
  /\ UNCHANGED <<qaFrame, streams_opened>>

\* Step 6 fails in the store: caught by "except Exception"; the
\* transaction the UPDATE began has not been committed.
stream_complete_error(p) ==
  /\ gen[p].pc = "final"
  /\ gen' = [gen EXCEPT ![p].frames = Append(@, StoreErrorFrame),
                        ![p].in_tx = TRUE,
                        ![p].pc = "fail"]
  /\ UNCHANGED <<qaFrame, qa, streams_opened>>

\* yield "data: [DONE]"; the generator then ends.
stream_done(p) ==
  /\ gen[p].pc = "done"
  /\ gen' = [gen EXCEPT ![p] = Ended([@ EXCEPT !.frames = Append(@, DoneFrame)], "end")]
  /\ UNCHANGED <<qaFrame, qa, streams_opened>>

\* Mutant: the failure handler persists the partial answer with FAILED.
handle_failure_persists_partial(p, db_ok) ==
  /\ gen[p].pc = "fail"
  /\ qa' = IF db_ok
           THEN update_answer(qa, gen[p].qa_id, Join(gen[p].full_answer_buffer), "FAILED")
           ELSE qa
  /\ gen' = [gen EXCEPT ![p] = Ended(@, "end")]
  /\ UNCHANGED <<qaFrame, streams_opened>>

\* Step 7: _handle_failure after the ERROR frame: update_status(qa_id,
\* "FAILED") and commit; a failure of that write is logged and swallowed.
handle_failure(p, db_ok) ==
  /\ gen[p].pc = "fail"
  /\ qa' = IF db_ok THEN update_status(qa, gen[p].qa_id, "FAILED") ELSE qa
  /\ gen' = [gen EXCEPT ![p] = Ended(@, "end")]
  /\ UNCHANGED <<qaFrame, streams_opened>>

\* The client disconnects: the generator is cancelled at its current await
\* (CancelledError) or closed at its current yield (GeneratorExit); neither
\* is an Exception, so no except clause runs.
stream_cancel(p) ==
  /\ gen[p].pc \notin Finished
  /\ gen' = [gen EXCEPT ![p] = Ended(@, "closed")]
  /\ UNCHANGED <<qaFrame, qa, streams_opened>>

\* ------------------------------------------------------------------------
\* Specification of the engine under concurrent streaming requests
\* ------------------------------------------------------------------------
\* What the clients of this specification send: a question on report 1, on
\* report 3 (context {}) and on report 4 (no such report).
CoreRequests ==
  { req \in ChatInitRequests : req.user_id = "u1" /\ req.marketplace_id = "m1"
                               /\ req.question = <<"p">> /\ req.report_id # 2 }

Next ==
  \/ \E req \in CoreRequests : Len(qa) < MaxTurns /\ init_chat(req)
  \/ \E p \in Procs : \E qa_id \in 0..Len(qa) :
       streams_opened < MaxStreams /\ stream_open(p, qa_id)
  \/ \E p \in Procs : stream_load(p)
  \/ \E p \in Procs : stream_context(p)
  \/ \E p \in Procs : stream_generating(p)
  \/ \E p \in Procs : stream_history(p)
  \/ \E p \in Procs : stream_db_error(p)
  \/ \E p \in Procs : \E result \in {"ok", "api", "sys"} : stream_call(p, result)
  \/ \E p \in Procs : \E content \in Fragments :
       Len(gen[p].full_answer_buffer) < MaxChunks /\ stream_chunk(p, content)
  \/ \E p \in Procs : \E kind \in {"api", "sys"} : stream_model_error(p, kind)
  \/ \E p \in Procs : stream_model_end(p)
  \/ \E p \in Procs : stream_complete(p)
  \/ \E p \in Procs : stream_complete_error(p)
  \/ \E p \in Procs : stream_done(p)
  \/ \E p \in Procs : \E db_ok \in BOOLEAN : handle_failure(p, db_ok)
  \/ \E p \in Procs : stream_cancel(p)

Spec == Init /\ [][Next]_vars

\* ------------------------------------------------------------------------
\* Specification of one streaming request at a time over several tenants
\* and reports, with get_chat_history
\* ------------------------------------------------------------------------
NextTenants ==
  \/ \E req \in ChatInitRequests : Len(qa) < MaxTurns /\ init_chat(req)
  \/ \E req \in ChatHistoryRequests : chat_history(req)
  \/ \E qa_id \in 0..Len(qa) : streams_opened < MaxStreams /\ stream_open("s1", qa_id)
  \/ stream_load("s1")
  \/ stream_context("s1")
  \/ stream_generating("s1")
  \/ stream_history("s1")
  \/ stream_db_error("s1")
  \/ \E result \in {"ok", "api", "sys"} : stream_call("s1", result)
  \/ \E content \in {<<>>, <<"b">>} :
       Len(gen["s1"].full_answer_buffer) < MaxChunks /\ stream_chunk("s1", content)
  \/ \E kind \in {"api", "sys"} : stream_model_error("s1", kind)
  \/ stream_model_end("s1")
  \/ stream_complete("s1")
  \/ stream_complete_error("s1")
  \/ stream_done("s1")
  \/ \E db_ok \in BOOLEAN : handle_failure("s1", db_ok)
  \/ stream_cancel("s1")

SpecTenants == Init /\ [][NextTenants]_vars

\* ------------------------------------------------------------------------
\* Specification of the engine started on a table that already holds
\* HistoryLimit completed turns of report 1 (two pairs created at the same
\* instant, one with the empty answer of a model that sent no content)
\* ------------------------------------------------------------------------
InitHistory ==
  /\ domain \in {"insights", "operations"}
  /\ reports = (1 :> "DATA" @@ 2 :> "DATA" @@ 3 :> "EMPTY")
  /\ qa = [i \in 1..HistoryLimit |->
             [id |-> i, user_id |-> "u1", marketplace_id |-> "m1", report_id |-> 1,
              question |-> <<"p">>, status |-> "COMPLETED",
              answer |-> IF i = 2 THEN Some(<<>>) ELSE Some(<<"a">>),
              created_at |-> (i + 1) \div 2]]
  /\ gen = [p \in Procs |-> IdleGen]
  /\ llm_calls = 0
  /\ streams_opened = 0
  /\ reply = [op |-> "none", report_id |-> 0, code |-> "none", qa_id |-> 0, rows |-> <<>>]
  /\ InitAuth

NextHistory ==
  \/ \E req \in CoreRequests : Len(qa) < HistoryLimit + MaxTurns /\ init_chat(req)
  \/ \E qa_id \in 0..Len(qa) : streams_opened < MaxStreams /\ stream_open("s1", qa_id)
  \/ stream_load("s1")
  \/ stream_context("s1")
  \/ stream_generating("s1")
  \/ stream_history("s1")
  \/ stream_db_error("s1")
  \/ \E result \in {"ok", "api", "sys"} : stream_call("s1", result)
  \/ \E content \in {<<>>, <<"b">>} :
       Len(gen["s1"].full_answer_buffer) < MaxChunks /\ stream_chunk("s1", content)
  \/ \E kind \in {"api", "sys"} : stream_model_error("s1", kind)
  \/ stream_model_end("s1")
  \/ stream_complete("s1")
  \/ stream_complete_error("s1")
  \/ stream_done("s1")
  \/ \E db_ok \in BOOLEAN : handle_failure("s1", db_ok)
  \/ stream_cancel("s1")

SpecHistory == InitHistory /\ [][NextHistory]_vars

\* ------------------------------------------------------------------------
\* Specification of one streaming request at a time while the report
\* tables are written from outside the engine: the insights QA table has no
\* foreign key to its report table, so a report row can be deleted, or its
\* mcp_data replaced by {}, while turns of it exist
\* ------------------------------------------------------------------------
report_deleted(r) ==
  /\ r \in DOMAIN reports
  /\ reports' = [x \in DOMAIN reports \ {r} |-> reports[x]]
  /\ UNCHANGED <<domain, qa, gen, llm_calls, streams_opened, reply, authVars>>

report_emptied(r) ==
  /\ r \in DOMAIN reports
  /\ reports[r] # "EMPTY"
  /\ reports' = [reports EXCEPT ![r] = "EMPTY"]
  /\ UNCHANGED <<domain, qa, gen, llm_calls, streams_opened, reply, authVars>>

NextReports ==
  \/ \E req \in CoreRequests : Len(qa) < MaxTurns /\ init_chat(req)
  \/ report_deleted(1)
  \/ report_emptied(1)
  \/ \E qa_id \in 0..Len(qa) : streams_opened < MaxStreams /\ stream_open("s1", qa_id)
  \/ stream_load("s1")
  \/ stream_context("s1")
  \/ stream_generating("s1")
  \/ stream_history("s1")
  \/ stream_db_error("s1")
  \/ \E result \in {"ok", "api", "sys"} : stream_call("s1", result)
  \/ \E content \in {<<>>, <<"b">>} :
       Len(gen["s1"].full_answer_buffer) < MaxChunks /\ stream_chunk("s1", content)
  \/ \E kind \in {"api", "sys"} : stream_model_error("s1", kind)
  \/ stream_model_end("s1")
  \/ stream_complete("s1")
  \/ stream_complete_error("s1")
  \/ stream_done("s1")
  \/ \E db_ok \in BOOLEAN : handle_failure("s1", db_ok)
  \/ stream_cancel("s1")

SpecReports == Init /\ [][NextReports]_vars

\* ------------------------------------------------------------------------
\* Specification of one streaming request at a time in each of the three
\* domain variants (the service classes differ in step 4 and in the texts
\* of their errors)
\* ------------------------------------------------------------------------
InitDomains ==
  /\ domain \in {"marketing", "insights", "operations"}
  /\ reports = (1 :> "DATA" @@ 2 :> "DATA" @@ 3 :> "EMPTY")
  /\ qa = <<>>
  /\ gen = [p \in Procs |-> IdleGen]
  /\ llm_calls = 0
  /\ streams_opened = 0
  /\ reply = [op |-> "none", report_id |-> 0, code |-> "none", qa_id |-> 0, rows |-> <<>>]
  /\ InitAuth

SpecDomains == InitDomains /\ [][NextReports]_vars

\* ------------------------------------------------------------------------

\* Specification of one streaming request under fair scheduling: the event
\* loop resumes a suspended generator whenever the operation it awaits has
\* finished (every database call returns or raises, the model client has a
\* request timeout, so the model stream delivers, ends or raises); a
\* disconnect of the client may happen or not
\* ------------------------------------------------------------------------
StreamStep(p) ==
  \/ stream_load(p)
  \/ stream_context(p)
  \/ stream_generating(p)
  \/ stream_history(p)
  \/ stream_db_error(p)
  \/ \E result \in {"ok", "api", "sys"} : stream_call(p, result)
  \/ \E content \in {<<>>, <<"b">>} :
       Len(gen[p].full_answer_buffer) < MaxChunks /\ stream_chunk(p, content)
  \/ \E kind \in {"api", "sys"} : stream_model_error(p, kind)
  \/ stream_model_end(p)
  \/ stream_complete(p)
  \/ stream_complete_error(p)
  \/ stream_done(p)
  \/ \E db_ok \in BOOLEAN : handle_failure(p, db_ok)

SpecLive == Init /\ [][NextReports]_vars /\ WF_vars(StreamStep("s1"))

\* ------------------------------------------------------------------------

\* AuthService: login, refresh_token, logout
\* ------------------------------------------------------------------------
LoginRequests ==
  { [phone_number |-> "111", password |-> "pw1"],
    [phone_number |-> "111", password |-> "bad"],
    [phone_number |-> "222", password |-> "pw2"],
    [phone_number |-> "222", password |-> "bad"],
    [phone_number |-> "333", password |-> "pw3"],
    [phone_number |-> "999", password |-> "pw1"] }

get_by_phone_number(phone_number) ==
  { u \in DOMAIN users : users[u].phone_number = phone_number /\ ~users[u].is_deleted }

\* _create_tokens: the Token returned and the store after SETEX.
Token(user_id, refresh_token) ==
  [code |-> "ok", access_token |-> create_access_token(user_id),
   refresh_token |-> refresh_token]

Unauthorized == [NoToken EXCEPT !.code = "system.unauthorized"]

\* Mutant: the account state is checked before the password.
login_active_first(req) ==
  /\ LET found == get_by_phone_number(req.phone_number)
     IN  IF found = {}
         THEN /\ auth_reply' = [op |-> "login",
                                result |-> [NoToken EXCEPT !.code = "auth.invalid_credentials"]]
              /\ UNCHANGED <<redis, next_token>>
         ELSE LET u == CHOOSE x \in found : TRUE
              IN  IF ~users[u].is_active
                  THEN /\ auth_reply' = [op |-> "login",
                                         result |-> [NoToken EXCEPT
                                                       !.code = "auth.account_locked"]]
                       /\ UNCHANGED <<redis, next_token>>
                  ELSE IF ~verify_password_async(req.password, users[u].hashed_password)
                  THEN /\ auth_reply' = [op |-> "login",
                                         result |-> [NoToken EXCEPT
                                                       !.code = "auth.invalid_credentials"]]
                       /\ UNCHANGED <<redis, next_token>>
                  ELSE /\ redis' = redis_setex(redis, RedisKey(next_token), u)
                       /\ next_token' = next_token + 1
                       /\ auth_reply' = [op |-> "login", result |-> Token(u, next_token)]
  /\ auth_calls' = auth_calls + 1
  /\ UNCHANGED <<users, rf, redeemed, logged_out, uc, qaVars>>

login(req) ==
  /\ LET found == get_by_phone_number(req.phone_number)
     IN  IF found = {}
         THEN /\ auth_reply' = [op |-> "login",
                                result |-> [NoToken EXCEPT !.code = "auth.invalid_credentials"]]
              /\ UNCHANGED <<redis, next_token>>
         ELSE LET u == CHOOSE x \in found : TRUE
              IN  IF ~verify_password_async(req.password, users[u].hashed_password)
                  THEN /\ auth_reply' = [op |-> "login",
                                         result |-> [NoToken EXCEPT
                                                       !.code = "auth.invalid_credentials"]]
                       /\ UNCHANGED <<redis, next_token>>
                  ELSE IF ~users[u].is_active
                  THEN /\ auth_reply' = [op |-> "login",
                                         result |-> [NoToken EXCEPT
                                                       !.code = "auth.account_locked"]]
                       /\ UNCHANGED <<redis, next_token>>
                  ELSE /\ redis' = redis_setex(redis, RedisKey(next_token), u)
                       /\ next_token' = next_token + 1
                       /\ auth_reply' = [op |-> "login", result |-> Token(u, next_token)]
  /\ auth_calls' = auth_calls + 1
  /\ UNCHANGED <<users, rf, redeemed, logged_out, uc, qaVars>>

\* refresh_token, one action per await: GET, DELETE, SETEX.
refresh_begin(c, refresh_token) ==
  /\ rf[c].pc \in {"idle", "end"}
  /\ rf' = [rf EXCEPT ![c] = [IdleCall EXCEPT !.pc = "get",
                                              !.refresh_token = refresh_token,
                                              !.replay = refresh_token \in redeemed,
                                              !.after_logout =
                                                refresh_token \in logged_out]]
  /\ auth_calls' = auth_calls + 1
  /\ UNCHANGED <<users, redis, next_token, auth_reply, redeemed, logged_out, uc, qaVars>>

refresh_get(c) ==
  /\ rf[c].pc = "get"
  /\ LET user_id == redis_get(redis, RedisKey(rf[c].refresh_token))
     IN  rf' = [rf EXCEPT ![c] =
                  IF user_id = NULL
                  THEN [@ EXCEPT !.pc = "end", !.result = Unauthorized]
                  ELSE [@ EXCEPT !.pc = "delete", !.user_id = user_id[1]]]
  /\ UNCHANGED <<users, redis, next_token, auth_reply, auth_calls, redeemed, logged_out, uc, qaVars>>

\* Mutant: the old mapping is not deleted.
refresh_delete_keeps_key(c) ==
  /\ rf[c].pc = "delete"
  /\ rf' = [rf EXCEPT ![c].pc = "create"]
  /\ UNCHANGED <<users, redis, next_token, auth_reply, auth_calls, redeemed, logged_out, uc, qaVars>>

refresh_delete(c) ==
  /\ rf[c].pc = "delete"
  /\ redis' = redis_delete(redis, RedisKey(rf[c].refresh_token))
  /\ rf' = [rf EXCEPT ![c].pc = "create"]
  /\ UNCHANGED <<users, next_token, auth_reply, auth_calls, redeemed, logged_out, uc, qaVars>>

\* Mutant: no rotation, the presented credential is stored again.
refresh_create_reuses_token(c) ==
  /\ rf[c].pc = "create"
  /\ redis' = redis_setex(redis, RedisKey(rf[c].refresh_token), rf[c].user_id)
  /\ next_token' = next_token
  /\ rf' = [rf EXCEPT ![c].pc = "end",
                      ![c].result = Token(rf[c].user_id, rf[c].refresh_token)]
  /\ redeemed' = redeemed \cup {rf[c].refresh_token}
  /\ UNCHANGED <<users, auth_reply, auth_calls, logged_out, uc, qaVars>>

refresh_create(c) ==
  /\ rf[c].pc = "create"
  /\ redis' = redis_setex(redis, RedisKey(next_token), rf[c].user_id)
  /\ next_token' = next_token + 1
  /\ rf' = [rf EXCEPT ![c].pc = "end",
                      ![c].result = Token(rf[c].user_id, next_token)]
  /\ redeemed' = redeemed \cup {rf[c].refresh_token}
  /\ UNCHANGED <<users, auth_reply, auth_calls, logged_out, uc, qaVars>>

\* Mutant: logout of a credential that is not stored is an error.
logout_strict(refresh_token) ==
  /\ redis' = redis_delete(redis, RedisKey(refresh_token))
  /\ auth_reply' = [op |-> "logout",
                    result |-> IF RedisKey(refresh_token) \in DOMAIN redis
                               THEN NoToken ELSE Unauthorized]
  /\ logged_out' = logged_out \cup {refresh_token}
  /\ UNCHANGED <<users, next_token, rf, auth_calls, redeemed, uc, qaVars>>

logout(refresh_token) ==
  /\ redis' = redis_delete(redis, RedisKey(refresh_token))
  /\ auth_reply' = [op |-> "logout", result |-> NoToken]
  /\ logged_out' = logged_out \cup {refresh_token}
  /\ UNCHANGED <<users, next_token, rf, auth_calls, redeemed, uc, qaVars>>

\* The TTL of a key set by SETEX runs out.
redis_expire(key) ==
  /\ key \in DOMAIN redis
  /\ redis' = redis_delete(redis, key)
  /\ UNCHANGED <<users, next_token, rf, auth_reply, auth_calls, redeemed, logged_out, uc, qaVars>>

\* Refresh credentials a client may present: any issued one, or 0 (unknown).
Presentable == 0..(next_token - 1)

NextAuth ==
  \/ \E req \in LoginRequests : auth_calls < MaxAuthCalls /\ login(req)
  \/ \E c \in Clients : \E t \in Presentable :
       auth_calls < MaxAuthCalls /\ refresh_begin(c, t)
  \/ \E c \in Clients : refresh_get(c)
  \/ \E c \in Clients : refresh_delete(c)
  \/ \E c \in Clients : refresh_create(c)
  \/ \E t \in Presentable : logout(t)
  \/ \E t \in Presentable : redis_expire(RedisKey(t))

SpecAuth == Init /\ [][NextAuth]_vars

\* ------------------------------------------------------------------------
\* Specification of the credential lifecycle while accounts are
\* deactivated (UserService.update with is_active = False) or soft-deleted
\* (is_deleted set through update) after they have logged in
\* ------------------------------------------------------------------------
user_deactivated(u) ==
  /\ u \in DOMAIN users
  /\ ~users[u].is_deleted
  /\ users[u].is_active
  /\ users' = [users EXCEPT ![u].is_active = FALSE]
  /\ UNCHANGED <<redis, next_token, rf, auth_reply, auth_calls, redeemed, logged_out,
                 uc, qaVars>>

user_soft_deleted(u) ==
  /\ u \in DOMAIN users
  /\ ~users[u].is_deleted
  /\ users' = [users EXCEPT ![u].is_deleted = TRUE]
  /\ UNCHANGED <<redis, next_token, rf, auth_reply, auth_calls, redeemed, logged_out,
                 uc, qaVars>>

\* get_current_user for the subject of a valid bearer token.
get_current_user(sub) ==
  IF sub \notin DOMAIN users THEN "system.unauthorized"
  ELSE IF users[sub].is_deleted THEN "system.unauthorized"
  ELSE IF ~users[sub].is_active THEN "system.unauthorized"
  ELSE "ok"

NextAccounts ==
  \/ \E req \in LoginRequests : auth_calls < MaxAuthCalls /\ login(req)
  \/ \E c \in Clients : \E t \in Presentable :
       auth_calls < MaxAuthCalls /\ refresh_begin(c, t)
  \/ \E c \in Clients : refresh_get(c)
  \/ \E c \in Clients : refresh_delete(c)
  \/ \E c \in Clients : refresh_create(c)
  \/ user_deactivated("u1")
  \/ user_soft_deleted("u1")

SpecAccounts == Init /\ [][NextAccounts]_vars

\* ------------------------------------------------------------------------

\* UserService.create, one action per await
\* ------------------------------------------------------------------------
UserCreateRequests ==
  { [phone_number |-> ph, email |-> em, username |-> NULL, password |-> "pw9"] :
      ph \in {"111", "333", "444"}, em \in {NULL, Some("a@x"), Some("b@x")} }
  \cup { [phone_number |-> "555", email |-> NULL, username |-> Some("neo"),
          password |-> "pw9"] }

\* Primary keys (uuid7) of the rows create may insert.
NewUserIds == {"u4", "u5", "u6", "u7"}

get_by_email(email) ==
  { u \in DOMAIN users : users[u].email = Some(email) /\ ~users[u].is_deleted }

get_by_username(username) ==
  { u \in DOMAIN users : users[u].username = Some(username) /\ ~users[u].is_deleted }

\* AppException.__init__(self, error, message="", data=None) called with the
\* keyword arguments kw: the exception the raise statement ends with.  The
\* parameters are error, message and data; error has no default.
AppExceptionInit(kw) ==
  IF "error" \in DOMAIN kw /\ DOMAIN kw \subseteq {"error", "message", "data"}
  THEN kw.error
  ELSE "TypeError"

\* The unique constraints of the users table (phone_number, email and
\* username, over all rows, soft-deleted ones included) accept the row.
UniqueOk(row) ==
  \A u \in DOMAIN users :
    /\ users[u].phone_number # row.phone_number
    /\ row.email # NULL => users[u].email # row.email
    /\ row.username # NULL => users[u].username # row.username

usersFrame ==
  <<redis, next_token, rf, auth_reply, auth_calls, redeemed, logged_out, qaVars>>

create_begin(c, obj_in) ==
  /\ uc[c].pc \in {"idle", "end"}
  /\ uc' = [uc EXCEPT ![c] = [IdleCreate EXCEPT !.pc = "phone", !.obj_in = obj_in]]
  /\ UNCHANGED <<users, usersFrame>>

create_check_phone(c) ==
  /\ uc[c].pc = "phone"
  /\ uc' = [uc EXCEPT ![c] =
              IF get_by_phone_number(uc[c].obj_in.phone_number) # {}
              THEN [@ EXCEPT !.pc = "end",
                             !.code = AppExceptionInit([code |-> "40001",
                                                        message |-> "phone registered",
                                                        field |-> "phone_number"])]
              ELSE [@ EXCEPT !.pc = "email"]]
  /\ UNCHANGED <<users, usersFrame>>

create_check_email(c) ==
  /\ uc[c].pc = "email"
  /\ uc' = [uc EXCEPT ![c] =
              IF /\ uc[c].obj_in.email # NULL
                 /\ get_by_email(uc[c].obj_in.email[1]) # {}
              THEN [@ EXCEPT !.pc = "end",
                             !.code = AppExceptionInit([code |-> "40002",
                                                        message |-> "email registered",
                                                        field |-> "email"])]
              ELSE [@ EXCEPT !.pc = "username"]]
  /\ UNCHANGED <<users, usersFrame>>

create_check_username(c) ==
  /\ uc[c].pc = "username"
  /\ uc' = [uc EXCEPT ![c] =
              IF /\ uc[c].obj_in.username # NULL
                 /\ get_by_username(uc[c].obj_in.username[1]) # {}
              THEN [@ EXCEPT !.pc = "end",
                             !.code = AppExceptionInit([code |-> "40003",
                                                        message |-> "username taken",
                                                        field |-> "username"])]
              ELSE [@ EXCEPT !.pc = "insert"]]
  /\ UNCHANGED <<users, usersFrame>>

\* Hash the password, add the row, flush and commit: the INSERT succeeds, or
\* a unique constraint rejects it and IntegrityError leaves create.
create_insert(c) ==
  /\ uc[c].pc = "insert"
  /\ LET obj_in == uc[c].obj_in
         user == [phone_number |-> obj_in.phone_number, email |-> obj_in.email,
                  username |-> obj_in.username,
                  hashed_password |-> hash(obj_in.password),
                  is_active |-> TRUE, is_deleted |-> FALSE]
         id == CHOOSE x \in NewUserIds \ DOMAIN users : TRUE
     IN  IF UniqueOk(user)
         THEN /\ users' = (id :> user) @@ users
              /\ uc' = [uc EXCEPT ![c].pc = "end", ![c].code = "ok"]
         ELSE /\ users' = users
              /\ uc' = [uc EXCEPT ![c].pc = "end", ![c].code = "IntegrityError"]
  /\ UNCHANGED usersFrame

NextUsers ==
  \/ \E c \in Clients : \E obj_in \in UserCreateRequests : create_begin(c, obj_in)
  \/ \E c \in Clients : create_check_phone(c)
  \/ \E c \in Clients : create_check_email(c)
  \/ \E c \in Clients : create_check_username(c)
  \/ \E c \in Clients :
       Cardinality(DOMAIN users) < 3 + MaxNewUsers /\ create_insert(c)

SpecUsers == Init /\ [][NextUsers]_vars

\* ------------------------------------------------------------------------
\* Claims
\* ------------------------------------------------------------------------
Terminal == {"COMPLETED", "FAILED"}

\* C1: once a turn's status is COMPLETED or FAILED, no step of the engine
\* changes its status or its answer again.
C1_TerminalRowNeverMutated ==
  [][\A i \in DOMAIN qa :
       qa[i].status \in Terminal =>
         /\ qa'[i].status = qa[i].status
         /\ qa'[i].answer = qa[i].answer]_vars

\* C2: a turn is created PENDING and every change of its status is one of
\* PENDING->GENERATING, GENERATING->COMPLETED, GENERATING->FAILED.
LifecycleEdges ==
  { <<"PENDING", "GENERATING">>, <<"GENERATING", "COMPLETED">>,
    <<"GENERATING", "FAILED">> }

C2_OnlyLifecycleEdges ==
  [][\A i \in DOMAIN qa' :
       IF i \in DOMAIN qa
       THEN qa'[i].status # qa[i].status =>
              <<qa[i].status, qa'[i].status>> \in LifecycleEdges
       ELSE qa'[i].status = "PENDING"]_vars

\* C3: init_chat on a report whose context is absent (no such report, or a
\* context the code reads as none) raises the context-missing (404) error
\* and leaves the turn table, hence every get_chat_history result, as it
\* was.
C3_AbsentContextCreatesNoTurn ==
  [][\A req \in ChatInitRequests :
       (init_chat(req) /\ Falsy(get_report_context(req.report_id))) =>
         /\ qa' = qa
         /\ reply'.code = ContextMissingCode
         /\ reply'.qa_id = 0
         /\ \A h \in ChatHistoryRequests :
              get_chat_history(qa', h.user_id, h.marketplace_id, h.report_id)
                = get_chat_history(qa, h.user_id, h.marketplace_id, h.report_id)]_vars

\* init_chat has just failed on the unknown report 4 while turns exist.
C3_Witness ==
  /\ reply.op = "init_chat"
  /\ reply.report_id = 4
  /\ reply.code = ContextMissingCode
  /\ Len(qa) >= 1

\* C4: a successful init_chat appends exactly one row (PENDING, answer
\* NULL, the request's question and owner fields, a fresh id), changes no
\* other row, calls no model, returns the new id, and get_chat_history of
\* the same (user, marketplace, report) then lists that id as PENDING.
C4_InitChatAddsOnePendingRow ==
  [][\A req \in ChatInitRequests :
       (init_chat(req) /\ ~Falsy(get_report_context(req.report_id))) =>
         /\ Len(qa') = Len(qa) + 1
         /\ \A i \in DOMAIN qa : qa'[i] = qa[i]
         /\ LET new == qa'[Len(qa')]
            IN  /\ new.status = "PENDING"
                /\ new.answer = NULL
                /\ new.question = req.question
                /\ new.user_id = req.user_id
                /\ new.marketplace_id = req.marketplace_id
                /\ new.report_id = req.report_id
                /\ \A i \in DOMAIN qa : qa[i].id # new.id
                /\ reply'.code = "ok"
                /\ reply'.qa_id = new.id
         /\ llm_calls' = llm_calls
         /\ gen' = gen
         /\ \A rows \in get_chat_history(qa', req.user_id, req.marketplace_id,
                                         req.report_id) :
              \E k \in 1..Len(rows) :
                rows[k].id = reply'.qa_id /\ rows[k].status = "PENDING"]_vars

\* init_chat has just created a second turn of another question beside a
\* turn that is no longer PENDING.
C4_Witness ==
  /\ reply.op = "init_chat"
  /\ reply.code = "ok"
  /\ reply.qa_id = 2
  /\ Len(qa) = 2
  /\ qa[2].status = "PENDING"
  /\ qa[2].question = <<"q">>
  /\ qa[1].status = "COMPLETED"

\* C5: the history window a stream holds for the model never contains the
\* stream's own turn, holds only rows read as COMPLETED, has at most 5
\* entries and is ordered by created_at ascending.
C5_HistoryWindow ==
  \A p \in Procs :
    LET w == gen[p].history_records
    IN  /\ Len(w) <= 5
        /\ \A k \in 1..Len(w) : /\ w[k].id # gen[p].qa_id
                                /\ w[k].status = "COMPLETED"
        /\ \A k \in 1..Len(w) - 1 : w[k].created_at <= w[k + 1].created_at

\* A stream is about to call the model with a full window although six
\* other completed turns of the report exist.
C5_Witness ==
  /\ gen["s1"].pc = "call"
  /\ Len(gen["s1"].history_records) = 5
  /\ Cardinality({ i \in DOMAIN qa : /\ qa[i].report_id = 1
                                     /\ qa[i].id # gen["s1"].qa_id
                                     /\ qa[i].status = "COMPLETED" }) >= 6

\* The text of the content frames of a frame sequence, concatenated.
ContentText(frames) ==
  LET F[k \in 0..Len(frames)] ==
        IF k = 0 THEN <<>>
        ELSE IF frames[k].type = "content" THEN F[k - 1] \o frames[k].content
             ELSE F[k - 1]
  IN  F[Len(frames)]

Last(s) == s[Len(s)]
AllContent(frames, n) == \A k \in 1..n : frames[k].type = "content"
ModelErrorFrames == {LlmErrorFrame("api"), LlmErrorFrame("sys")}

\* A row changes only in a step of a stream opened on its id.
OnlyOwnStreamWrites ==
  \A i \in DOMAIN qa :
    qa'[i] # qa[i] =>
      \E p \in Procs : gen[p].qa_id = i /\ gen[p].pc \in {"gen", "final", "fail"}

\* C6 as stated: whenever the only stream ever opened has returned after
\* its model ended normally, its frames are content frames followed by DONE
\* and get_chat_history returns the turn COMPLETED with the concatenated
\* content as answer.
C6_RoundTripAsStated ==
  \A p \in Procs :
    (streams_opened = 1 /\ gen[p].pc = "end" /\ gen[p].frames # <<>>
       /\ Last(gen[p].frames) \in {DoneFrame, StoreErrorFrame}) =>
      /\ Last(gen[p].frames) = DoneFrame
      /\ AllContent(gen[p].frames, Len(gen[p].frames) - 1)
      /\ LET row == qa[gen[p].qa_id]
         IN  \A rows \in get_chat_history(qa, row.user_id, row.marketplace_id,
                                          row.report_id) :
               \E k \in 1..Len(rows) :
                 /\ rows[k].id = gen[p].qa_id
                 /\ rows[k].status = "COMPLETED"
                 /\ rows[k].answer = Some(ContentText(gen[p].frames))

\* C6 amended: when the final write of a stream commits, it stores
\* COMPLETED and the concatenation of the fragments, which is the
\* concatenation of the emitted content frames, and get_chat_history
\* returns the turn so; the row stays so until a stream opened on the same
\* id writes it; a stream that emits DONE has emitted content frames only
\* before it and ends.
C6_RoundTrip ==
  [][/\ OnlyOwnStreamWrites
     /\ \A p \in Procs :
          /\ stream_complete(p) =>
               LET id == gen[p].qa_id
                   text == ContentText(gen[p].frames)
               IN  /\ AllContent(gen[p].frames, Len(gen[p].frames))
                   /\ \A i \in DOMAIN qa : i # id => qa'[i] = qa[i]
                   /\ \A rows \in get_chat_history(qa', qa[id].user_id,
                                     qa[id].marketplace_id, qa[id].report_id) :
                        \E k \in 1..Len(rows) :
                          /\ rows[k].id = id
                          /\ rows[k].question = qa[id].question
                          /\ rows[k].status = "COMPLETED"
                          /\ rows[k].answer = Some(text)
          /\ stream_done(p) =>
               /\ gen'[p].pc = "end"
               /\ gen'[p].frames = Append(gen[p].frames, DoneFrame)
               /\ AllContent(gen[p].frames, Len(gen[p].frames))
               /\ qa' = qa
          /\ stream_complete_error(p) =>
               /\ gen'[p].frames = Append(gen[p].frames, StoreErrorFrame)
               /\ qa' = qa]_vars

\* A stream received "a" then "b", its write committed, it has emitted DONE
\* and the turn reads COMPLETED with answer "ab".
C6_Witness ==
  \E p \in Procs :
    /\ gen[p].pc = "end"
    /\ gen[p].frames = <<ContentFrame(<<"a">>), ContentFrame(<<"b">>), DoneFrame>>
    /\ qa[gen[p].qa_id].status = "COMPLETED"
    /\ qa[gen[p].qa_id].answer = Some(<<"a", "b">>)

\* C7 as stated: whenever the only stream ever opened has returned after
\* its model raised, its frames are content frames followed by one ERROR
\* frame, the turn is FAILED and its answer is NULL.
C7_ModelErrorAsStated ==
  \A p \in Procs :
    (streams_opened = 1 /\ gen[p].pc = "end" /\ gen[p].frames # <<>>
       /\ Last(gen[p].frames) \in ModelErrorFrames) =>
      /\ AllContent(gen[p].frames, Len(gen[p].frames) - 1)
      /\ qa[gen[p].qa_id].status = "FAILED"
      /\ qa[gen[p].qa_id].answer = NULL

\* C7 amended: when the model raises after k fragments the stream emits one
\* ERROR frame after its k content frames and writes nothing at that
\* moment; its failure handler then changes at most the status of its own
\* turn, to FAILED when the write commits and not at all when it fails,
\* and never an answer; the stream then ends.
C7_ModelError ==
  [][\A p \in Procs :
       /\ (\/ \E kind \in {"api", "sys"} : stream_model_error(p, kind)
           \/ \E kind \in {"api", "sys"} : stream_call(p, kind)) =>
            /\ AllContent(gen[p].frames, Len(gen[p].frames))
            /\ Len(gen'[p].frames) = Len(gen[p].frames) + 1
            /\ Last(gen'[p].frames) \in ModelErrorFrames
            /\ gen'[p].pc = "fail"
            /\ qa' = qa
       /\ \A db_ok \in BOOLEAN :
            handle_failure(p, db_ok) =>
              LET id == gen[p].qa_id
              IN  /\ \A i \in DOMAIN qa : i # id => qa'[i] = qa[i]
                  /\ qa'[id].answer = qa[id].answer
                  /\ qa'[id].question = qa[id].question
                  /\ qa'[id].status = IF db_ok THEN "FAILED" ELSE qa[id].status
                  /\ gen'[p].pc = "end"
                  /\ gen'[p].frames = gen[p].frames]_vars

\* A stream on a turn received one fragment, then the model raised an API
\* error; the stream has returned and the turn is FAILED with a NULL answer.
C7_Witness ==
  \E p \in Procs :
    /\ gen[p].pc = "end"
    /\ gen[p].frames = <<ContentFrame(<<"a">>), LlmErrorFrame("api")>>
    /\ qa[gen[p].qa_id].status = "FAILED"
    /\ qa[gen[p].qa_id].answer = NULL

\* C10: in the frames of any stream a DONE or ERROR frame is the last
\* frame: nothing follows a terminal frame, so at most one is emitted.
C10_NoFrameAfterTerminal ==
  \A p \in Procs :
    \A k \in 1..Len(gen[p].frames) :
      gen[p].frames[k].type \in {"DONE", "ERROR"} => k = Len(gen[p].frames)

\* The final write failed after two content frames: the stream has ended
\* with a single ERROR frame and no DONE.
C10_Witness ==
  \E p \in Procs :
    /\ gen[p].pc = "end"
    /\ gen[p].frames = <<ContentFrame(<<"a">>), ContentFrame(<<"b">>), StoreErrorFrame>>

\* C8: of the refresh_token calls made with one credential no two return
\* success (of two concurrent redemptions one fails as unauthorized).
C8_OneRedemptionPerCredential ==
  \A c \in Clients : \A d \in Clients \ {c} :
    (/\ rf[c].pc = "end" /\ rf[d].pc = "end"
     /\ rf[c].refresh_token = rf[d].refresh_token
     /\ rf[c].result.code = "ok") =>
      rf[d].result = Unauthorized

\* C9: a refresh_token call begun after a call with the same credential has
\* returned success reads no mapping: it ends unauthorized, issues no
\* token and leaves Redis as it is.
C9_SingleUse ==
  [][\A c \in Clients :
       (refresh_get(c) /\ rf[c].replay) =>
         /\ rf'[c].pc = "end"
         /\ rf'[c].result = Unauthorized
         /\ redis' = redis
         /\ next_token' = next_token
         /\ RedisKey(rf[c].refresh_token) \notin DOMAIN redis]_vars

\* A call replaying an already redeemed credential has ended unauthorized.
C9_Witness ==
  \E c \in Clients :
    /\ rf[c].pc = "end"
    /\ rf[c].replay
    /\ rf[c].refresh_token \in redeemed
    /\ rf[c].result = Unauthorized

\* The error every failed login of the claim returns.
InvalidCredentials == [NoToken EXCEPT !.code = "auth.invalid_credentials"]

\* C11 as stated: every failed login returns the generic
\* invalid-credentials error, whatever the cause.
C11_UniformLoginFailureAsStated ==
  (auth_reply.op = "login" /\ auth_reply.result.code # "ok") =>
    auth_reply.result = InvalidCredentials

\* C11 amended: a login that does not present the secret of a stored,
\* non-deleted identifier (unknown, soft-deleted, wrong secret, whether the
\* account is active or not) returns the one generic invalid-credentials
\* error; a login with the right secret of a deactivated account returns
\* account-locked; no failed login issues or stores a credential.
C11_LoginFailure ==
  [][\A req \in LoginRequests :
       login(req) =>
         LET found == get_by_phone_number(req.phone_number)
             right == \E u \in found :
                        verify_password_async(req.password, users[u].hashed_password)
         IN  /\ ~right => auth_reply'.result = InvalidCredentials
             /\ (right /\ \E u \in found : ~users[u].is_active) =>
                  auth_reply'.result = [NoToken EXCEPT !.code = "auth.account_locked"]
             /\ (right /\ \A u \in found : users[u].is_active) =>
                  auth_reply'.result.code = "ok"
             /\ auth_reply'.result.code # "ok" =>
                  redis' = redis /\ next_token' = next_token]_vars

\* A login has just failed with the generic error while a credential
\* issued by an earlier successful login is stored.
C11_Witness ==
  /\ auth_reply.op = "login"
  /\ auth_reply.result = InvalidCredentials
  /\ redis # EmptyRedis

\* C12: get_chat_history(user, marketplace, report) returns each turn of
\* that triple exactly once and no other turn, whatever its status, with
\* the stored question, answer, status and creation time, ordered by
\* creation time ascending, and changes no turn, generator or model call.
C12_ChatHistoryScopedRead ==
  [][\A req \in ChatHistoryRequests :
       chat_history(req) =>
         LET rows == reply'.rows
             S == { i \in DOMAIN qa : /\ qa[i].report_id = req.report_id
                                      /\ qa[i].user_id = req.user_id
                                      /\ qa[i].marketplace_id = req.marketplace_id }
         IN  /\ { rows[k].id : k \in 1..Len(rows) } = S
             /\ Len(rows) = Cardinality(S)
             /\ \A k \in 1..Len(rows) :
                  /\ rows[k].question = qa[rows[k].id].question
                  /\ rows[k].answer = qa[rows[k].id].answer
                  /\ rows[k].status = qa[rows[k].id].status
                  /\ rows[k].created_at = qa[rows[k].id].created_at
             /\ \A k \in 1..Len(rows) - 1 : rows[k].created_at <= rows[k + 1].created_at
             /\ qa' = qa
             /\ gen' = gen
             /\ llm_calls' = llm_calls]_vars

\* get_chat_history has returned two turns of one triple, an older FAILED
\* one and a newer one that is still GENERATING.
C12_Witness ==
  /\ reply.op = "get_chat_history"
  /\ Len(reply.rows) = 2
  /\ reply.rows[1].status = "FAILED"
  /\ reply.rows[2].status = "GENERATING"
  /\ reply.rows[1].created_at < reply.rows[2].created_at

\* get_chat_history has returned the one turn of its triple, which is
\* PENDING, while the table holds a turn of another user on the same report.
C12_WitnessOtherTenant ==
  /\ reply.op = "get_chat_history"
  /\ Len(reply.rows) = 1
  /\ reply.rows[1].status = "PENDING"
  /\ Len(qa) = 2
  /\ \E i \in DOMAIN qa : qa[i].user_id = "u2" /\ qa[i].report_id = reply.report_id

\* C13: while a stream is about to issue the model request, is receiving
\* fragments, or is past the model stream, the committed status of its turn
\* is never PENDING: the GENERATING commit precedes the model call.
C13_GeneratingBeforeModelCall ==
  \A p \in Procs :
    gen[p].pc \in {"call", "recv", "final", "done", "fail"} =>
      qa[gen[p].qa_id].status # "PENDING"

\* A stream has received a fragment from the model and its turn is
\* GENERATING.
C13_Witness ==
  \E p \in Procs :
    /\ gen[p].pc = "recv"
    /\ gen[p].full_answer_buffer = <<<<"a">>>>
    /\ qa[gen[p].qa_id].status = "GENERATING"

\* C14: when a stream emits DONE (it stands between its final commit and
\* the DONE frame, or DONE is its last frame) the stored turn is COMPLETED
\* and holds the full answer of that stream.
C14_DoneOnlyAfterCommit ==
  \A p \in Procs :
    /\ gen[p].pc = "done" =>
         /\ qa[gen[p].qa_id].status = "COMPLETED"
         /\ qa[gen[p].qa_id].answer = Some(Join(gen[p].full_answer_buffer))
    /\ (gen[p].frames # <<>> /\ Last(gen[p].frames) = DoneFrame) =>
         /\ qa[gen[p].qa_id].status = "COMPLETED"
         /\ qa[gen[p].qa_id].answer = Some(ContentText(gen[p].frames))

\* The same statement for executions in which one stream only is ever
\* opened; it holds, so C14 fails by the writes of a second stream alone.
C14_DoneOnlyAfterCommitSingleStream ==
  streams_opened = 1 => C14_DoneOnlyAfterCommit

\* DONE is emitted by no step other than the one that follows the
\* committed final write, and a failed final write ends in ERROR.
C14_DoneFollowsOwnCommit ==
  [][\A p \in Procs :
       /\ (Len(gen'[p].frames) > Len(gen[p].frames) /\ Last(gen'[p].frames) = DoneFrame) =>
            gen[p].pc = "done"
       /\ gen'[p].pc = "done" /\ gen[p].pc # "done" =>
            /\ gen[p].pc = "final"
            /\ qa'[gen[p].qa_id].status = "COMPLETED"
            /\ qa'[gen[p].qa_id].answer = Some(Join(gen[p].full_answer_buffer))]_vars

C16_UnknownTurn ==
  [][\A p \in Procs :
       /\ (stream_load(p) /\ get_qa_by_id(qa, gen[p].qa_id) = NULL) =>
            /\ gen'[p].frames = <<ErrorFrame("Session not found")>>
            /\ gen'[p].pc = "end"
            /\ qa' = qa
            /\ llm_calls' = llm_calls
       /\ (gen[p].qa_id \notin DOMAIN qa /\ gen[p].pc \notin Finished) =>
            /\ gen[p].pc = "load"
            /\ gen'[p].pc \in {"load", "end", "raised", "closed"}
            /\ qa' = qa \/ gen'[p] = gen[p]]_vars

\* A stream on the unknown id 0 has ended with its single ERROR frame while
\* a turn exists and is still PENDING.
C16_Witness ==
  \E p \in Procs :
    /\ gen[p].pc = "end"
    /\ gen[p].qa_id = 0
    /\ gen[p].frames = <<ErrorFrame("Session not found")>>
    /\ Len(qa) >= 1
    /\ qa[1].status = "PENDING"

\* C17: when step 2 of a stream finds the context of its turn's report
\* absent, the stream emits one ERROR frame as its only frame and returns;
\* it calls no model and changes no turn, so the status stays what it was.
C17_ContextAbsentAtStream ==
  [][\A p \in Procs :
       (stream_context(p)
          /\ Falsy(get_report_context(gen[p].qa_record[1].report_id))) =>
         /\ gen'[p].frames = <<ContextMissingFrame>>
         /\ gen'[p].pc = "end"
         /\ qa' = qa
         /\ llm_calls' = llm_calls]_vars

\* The report of a PENDING turn was deleted after init_chat; a stream on
\* the turn has ended with its single ERROR frame, no model call was ever
\* made and the turn is still PENDING.
C17_Witness ==
  /\ gen["s1"].pc = "end"
  /\ gen["s1"].qa_id = 1
  /\ gen["s1"].frames = <<ContextMissingFrame>>
  /\ 1 \notin DOMAIN reports
  /\ qa[1].status = "PENDING"
  /\ llm_calls = 0

\* C18: a refresh_token(r) call that succeeds reads the subject r maps to,
\* deletes the mapping of r and nothing else, then stores one new mapping,
\* of a credential r' that differs from r and was not stored before, to
\* that subject, and returns r'; when it returns r is not stored, r' is,
\* and every other mapping is as the step found it.
C18_Rotation ==
  [][\A c \in Clients :
       LET r == rf[c].refresh_token
       IN  /\ (refresh_get(c) /\ RedisKey(r) \in DOMAIN redis) =>
                /\ rf'[c].pc = "delete"
                /\ rf'[c].user_id = redis[RedisKey(r)]
                /\ redis' = redis
           /\ refresh_delete(c) =>
                /\ RedisKey(r) \notin DOMAIN redis'
                /\ \A k \in DOMAIN redis \ {RedisKey(r)} :
                     k \in DOMAIN redis' /\ redis'[k] = redis[k]
                /\ DOMAIN redis' \subseteq DOMAIN redis
                /\ rf'[c].user_id = rf[c].user_id
           /\ refresh_create(c) =>
                LET new == rf'[c].result.refresh_token
                IN  /\ rf'[c].pc = "end"
                    /\ rf'[c].result.code = "ok"
                    /\ rf'[c].result.access_token = create_access_token(rf[c].user_id)
                    /\ new # r
                    /\ RedisKey(new) \notin DOMAIN redis
                    /\ RedisKey(r) \notin DOMAIN redis'
                    /\ DOMAIN redis' = DOMAIN redis \cup {RedisKey(new)}
                    /\ redis'[RedisKey(new)] = rf[c].user_id
                    /\ \A k \in DOMAIN redis : redis'[k] = redis[k]]_vars

\* A refresh_token call has returned a new credential: the old one is not
\* stored, the new one maps to the same user, and the credential of
\* another login is still stored.
C18_Witness ==
  \E c \in Clients :
    /\ rf[c].pc = "end"
    /\ rf[c].result.code = "ok"
    /\ rf[c].result.refresh_token # rf[c].refresh_token
    /\ RedisKey(rf[c].refresh_token) \notin DOMAIN redis
    /\ RedisKey(rf[c].result.refresh_token) \in DOMAIN redis
    /\ redis[RedisKey(rf[c].result.refresh_token)] = "u1"
    /\ Cardinality(DOMAIN redis) = 2

\* C19: logout(r) returns without error whether or not r is stored; it
\* removes the mapping of r and no other, leaves the store as it is when r
\* is not stored, and applied again changes nothing more; a refresh_token(r)
\* call begun after a logout(r) has returned ends unauthorized, issues no
\* credential and writes nothing.
C19_LogoutIdempotent ==
  [][/\ \A t \in Presentable :
          logout(t) =>
            /\ auth_reply' = [op |-> "logout", result |-> NoToken]
            /\ RedisKey(t) \notin DOMAIN redis'
            /\ DOMAIN redis' = DOMAIN redis \ {RedisKey(t)}
            /\ \A k \in DOMAIN redis' : redis'[k] = redis[k]
            /\ RedisKey(t) \notin DOMAIN redis => redis' = redis
            /\ redis_delete(redis', RedisKey(t)) = redis'
     /\ \A c \in Clients :
          (refresh_get(c) /\ rf[c].after_logout) =>
            /\ rf'[c].pc = "end"
            /\ rf'[c].result = Unauthorized
            /\ redis' = redis
            /\ next_token' = next_token]_vars

\* A refresh_token call begun after the logout of its credential, which
\* was never redeemed, has ended unauthorized; the credential of another
\* login is still stored.
C19_Witness ==
  \E c \in Clients :
    /\ rf[c].pc = "end"
    /\ rf[c].after_logout
    /\ rf[c].refresh_token >= 1
    /\ rf[c].refresh_token \notin redeemed
    /\ rf[c].result = Unauthorized
    /\ redis # EmptyRedis

\* C20: a create call that finds its phone number (its email) held by a
\* non-deleted user ends with the business exception of code 40001 (40002)
\* and adds no row, and no two non-deleted users ever share a phone number
\* or an email.
C20_DuplicateRejected ==
  [][\A c \in Clients :
       /\ (create_check_phone(c)
             /\ get_by_phone_number(uc[c].obj_in.phone_number) # {}) =>
            /\ uc'[c].pc = "end"
            /\ uc'[c].code = "40001"
            /\ users' = users
       /\ (create_check_email(c)
             /\ uc[c].obj_in.email # NULL
             /\ get_by_email(uc[c].obj_in.email[1]) # {}) =>
            /\ uc'[c].pc = "end"
            /\ uc'[c].code = "40002"
            /\ users' = users]_vars

\* C20, second part: no two non-deleted users share a phone number or an
\* email, and a create call that does not end "ok" has added no row.
C20_NoSharedPhoneOrEmail ==
  \A u \in DOMAIN users : \A v \in DOMAIN users \ {u} :
    (~users[u].is_deleted /\ ~users[v].is_deleted) =>
      /\ users[u].phone_number # users[v].phone_number
      /\ users[u].email # NULL => users[u].email # users[v].email

\* One (user, assistant) message pair per record, in the order of the
\* records.
AllPairs(records) ==
  LET F[i \in 0..Len(records)] ==
        IF i = 0 THEN <<>>
        ELSE F[i - 1] \o <<[role |-> "user", content |-> records[i].question],
                           [role |-> "assistant", content |-> records[i].answer[1]]>>
  IN  F[Len(records)]

\* The message lists the statement of step 4 allows a stream to build: the
\* system message, one pair for each of the min(5, n) most recent turns of
\* the same report that were created before the current turn, are
\* COMPLETED and have a non-null answer, oldest first, then the question.
StatedMessages(p) ==
  LET cur == gen[p].qa_record[1]
      S == { i \in DOMAIN qa : /\ qa[i].report_id = cur.report_id
                               /\ qa[i].created_at < cur.created_at
                               /\ qa[i].status = "COMPLETED"
                               /\ qa[i].answer # NULL }
  IN  { <<[role |-> "system", content |-> <<gen[p].mcp_data>>]>>
          \o AllPairs(Reverse([k \in 1..Len(o) |-> qa[o[k]]]))
          \o <<[role |-> "user", content |-> cur.question]>> :
        o \in order_by_created_at(qa, S, -1, HistoryLimit) }

\* C21: in every domain variant the message list step 4 builds is the
\* system message, then one (question, answer) pair for each of the
\* min(5, n) most recent turns of the same report that were created before
\* the current turn, are COMPLETED and have a non-null answer, oldest
\* first, then the question of the current turn.
C21_MessageListAsStated ==
  [][\A p \in Procs :
       stream_history(p) => gen'[p].messages \in StatedMessages(p)]_vars

\* What holds of step 4 in every variant: the list is the system message,
\* then at most 5 (question, answer) pairs, then the question of the
\* current turn; each pair is the question and the non-empty answer of a
\* COMPLETED turn of the same report other than the current one, and the
\* pairs are in ascending order of creation; marketing sends no pair.
C21_MessageListShape ==
  [][\A p \in Procs :
       stream_history(p) =>
         LET m == gen'[p].messages
             cur == gen[p].qa_record[1]
             n == (Len(m) - 2) \div 2
         IN  /\ Len(m) >= 2 /\ Len(m) % 2 = 0
             /\ m[1] = [role |-> "system", content |-> <<gen[p].mcp_data>>]
             /\ m[Len(m)] = [role |-> "user", content |-> cur.question]
             /\ n <= HistoryLimit
             /\ domain = "marketing" => n = 0
             /\ \E f \in [1..n -> DOMAIN qa] :
                  /\ \A k \in 1..n :
                       /\ f[k] # gen[p].qa_id
                       /\ qa[f[k]].report_id = cur.report_id
                       /\ qa[f[k]].status = "COMPLETED"
                       /\ qa[f[k]].answer \notin {NULL, Some(<<>>)}
                       /\ m[2 * k] = [role |-> "user", content |-> qa[f[k]].question]
                       /\ m[2 * k + 1] =
                            [role |-> "assistant", content |-> qa[f[k]].answer[1]]
                  /\ \A k \in 1..n - 1 :
                       /\ f[k] # f[k + 1]
                       /\ qa[f[k]].created_at <= qa[f[k + 1]].created_at]_vars

\* The content frames a list of fragments is emitted as.
FramesOf(buffer) == [k \in 1..Len(buffer) |-> ContentFrame(buffer[k])]

\* C22: a non-empty fragment received from the model is emitted at once as
\* one content frame after the frames already emitted, before the next
\* fragment is requested; an empty fragment emits nothing; no other step
\* emits a content frame, and frames once emitted are never reordered,
\* merged or withdrawn: while the model stream is consumed the emitted
\* frames are the non-empty fragments received so far, in that order.
C22_FramesInModelOrder ==
  [][\A p \in Procs :
       /\ \A content \in Fragments :
            stream_chunk(p, content) =>
              /\ gen'[p].frames = IF content # <<>>
                                  THEN Append(gen[p].frames, ContentFrame(content))
                                  ELSE gen[p].frames
              /\ gen'[p].pc = "recv"
              /\ qa' = qa
       /\ gen[p].pc = "recv" => gen[p].frames = FramesOf(gen[p].full_answer_buffer)
       /\ (gen[p].pc \notin Finished /\ gen'[p].frames # gen[p].frames) =>
            /\ Len(gen'[p].frames) = Len(gen[p].frames) + 1
            /\ SubSeq(gen'[p].frames, 1, Len(gen[p].frames)) = gen[p].frames
            /\ Last(gen'[p].frames).type = "content" => gen[p].pc = "recv"]_vars

\* A stream is consuming the model stream and has emitted the frame of "b"
\* and then the frame of "a", the order in which it received them.
C22_Witness ==
  \E p \in Procs :
    /\ gen[p].pc = "recv"
    /\ gen[p].full_answer_buffer = << <<"b">>, <<"a">> >>
    /\ gen[p].frames = <<ContentFrame(<<"b">>), ContentFrame(<<"a">>)>>

\* C23: no failure of a step of stream_answer_generator leaves it as an
\* exception: no stream is ever ended by an exception it raised.
C23_NoExceptionEscapes ==
  \A p \in Procs : gen[p].pc # "raised"

\* What holds: from the model call on (inside the try block) a failure of
\* the model, of the final write or of the FAILED write never leaves the
\* generator as an exception; the failure handler always ends it normally.
C23_NoEscapeInsideTry ==
  [][\A p \in Procs :
       /\ gen[p].pc \in {"call", "recv", "final", "done", "fail"} =>
            gen'[p].pc # "raised"
       /\ \A db_ok \in BOOLEAN : handle_failure(p, db_ok) => gen'[p].pc = "end"]_vars

\* C24: when the client disconnects while a stream is suspended after its
\* GENERATING commit and before its model stream has ended, the turn ends
\* FAILED with a NULL answer (stated for executions with a single stream).
C24_DisconnectMarksFailed ==
  [][\A p \in Procs :
       (/\ stream_cancel(p)
        /\ gen[p].pc \in {"hist", "call", "recv"}
        /\ streams_opened = 1) =>
         /\ qa'[gen[p].qa_id].status = "FAILED"
         /\ qa'[gen[p].qa_id].answer = NULL]_vars

\* What holds of a disconnect: the generator stops where it is, consumes
\* nothing more from the model, emits no frame and writes nothing, so the
\* turn keeps the status it had.
C24_DisconnectStopsConsuming ==
  [][\A p \in Procs :
       /\ stream_cancel(p) =>
            /\ gen'[p].pc = "closed"
            /\ gen'[p].frames = gen[p].frames
            /\ qa' = qa
            /\ llm_calls' = llm_calls
       /\ gen[p].pc = "closed" => (gen'[p] = gen[p] \/ gen'[p].pc = "load")]_vars

\* C25: every turn a stream has moved to GENERATING eventually is
\* COMPLETED or FAILED.
C25_GeneratingLeadsToTerminal ==
  \A i \in 1..MaxTurns :
    (i \in DOMAIN qa /\ qa[i].status = "GENERATING")
      ~> (i \in DOMAIN qa /\ qa[i].status \in Terminal)

\* C25, second part: once the only stream ever opened has finished, by any
\* path, a turn it moved out of PENDING is COMPLETED or FAILED.
C25_FinishedStreamLeavesTerminal ==
  \A p \in Procs :
    (/\ streams_opened = 1
     /\ gen[p].pc \in {"end", "raised", "closed"}
     /\ gen[p].qa_id \in DOMAIN qa
     /\ qa[gen[p].qa_id].status # "PENDING") =>
      qa[gen[p].qa_id].status \in Terminal

\* What holds under fair scheduling: every stream that was opened
\* finishes (it returns, raises or is closed).
C25_StreamFinishes ==
  (gen["s1"].pc \notin Finished) ~> (gen["s1"].pc \in Finished)

\* C26: in every reachable state a COMPLETED turn has an answer and a
\* PENDING, GENERATING or FAILED turn has none.
C26_AnswerIffCompleted ==
  \A i \in DOMAIN qa :
    /\ qa[i].status \in StatusValues
    /\ qa[i].status = "COMPLETED" => qa[i].answer # NULL
    /\ qa[i].status \in {"PENDING", "GENERATING", "FAILED"} => qa[i].answer = NULL

\* What holds: a COMPLETED turn always has an answer, a PENDING turn never
\* has one, and while at most one stream has been opened the full
\* statement holds.
C26_CompletedHasAnswer ==
  /\ \A i \in DOMAIN qa :
       /\ qa[i].status \in StatusValues
       /\ qa[i].status = "COMPLETED" => qa[i].answer # NULL
       /\ qa[i].status = "PENDING" => qa[i].answer = NULL
  /\ streams_opened <= 1 => C26_AnswerIffCompleted

\* C27: no database transaction of a streaming request is open while its
\* generator is suspended on the model (it is issuing the model request or
\* waiting for a fragment).
C27_NoTransactionAcrossModelCall ==
  \A p \in Procs : gen[p].pc \in {"call", "recv"} => ~gen[p].in_tx

\* What holds: the transaction of steps 1-3 is committed before step 4 and
\* the one of the final write before DONE is emitted, and the marketing
\* variant, which reads no history, holds no transaction while it is
\* suspended on the model.
C27_TransactionsOfWritesClosed ==
  \A p \in Procs :
    /\ gen[p].pc \in {"hist", "done"} => ~gen[p].in_tx
    /\ (domain = "marketing" /\ gen[p].pc \in {"call", "recv"}) => ~gen[p].in_tx
    /\ (domain # "marketing" /\ gen[p].pc \in {"call", "recv"}) => gen[p].in_tx

\* C28: every turn carries the user and marketplace of the report it
\* references (init_chat creates a turn only for the owner of the report),
\* and the history window of a stream holds turns of the tenant of that
\* stream's turn only.
C28_TenantIsolation ==
  /\ \A i \in DOMAIN qa :
       /\ qa[i].user_id = ReportOwner[qa[i].report_id].user_id
       /\ qa[i].marketplace_id = ReportOwner[qa[i].report_id].marketplace_id
  /\ \A p \in Procs :
       \A k \in 1..Len(gen[p].history_records) :
         /\ gen[p].history_records[k].user_id = gen[p].qa_record[1].user_id
         /\ gen[p].history_records[k].marketplace_id = gen[p].qa_record[1].marketplace_id

\* The second part alone: the window of a stream on a turn of the owner of
\* the report holds no turn written by another user or marketplace.
C28_OwnerWindowHoldsOwnTurns ==
  \A p \in Procs :
    (gen[p].qa_record # NULL
       /\ gen[p].qa_record[1].user_id = ReportOwner[gen[p].qa_record[1].report_id].user_id) =>
      \A k \in 1..Len(gen[p].history_records) :
        gen[p].history_records[k].user_id = gen[p].qa_record[1].user_id

\* What holds: a turn records the user, marketplace and report of the
\* request that created it, the report had a context at that moment, and
\* the window of a stream holds turns of the report of its turn only.
C28_TurnRecordsItsRequest ==
  /\ [][\A req \in ChatInitRequests :
          (init_chat(req) /\ qa' # qa) =>
            /\ ~Falsy(get_report_context(req.report_id))
            /\ qa'[Len(qa')].user_id = req.user_id
            /\ qa'[Len(qa')].marketplace_id = req.marketplace_id
            /\ qa'[Len(qa')].report_id = req.report_id]_vars
  /\ [](\A p \in Procs :
          \A k \in 1..Len(gen[p].history_records) :
            gen[p].history_records[k].report_id = gen[p].qa_record[1].report_id)

\* C29: a report whose context is the empty object {} is handled as one
\* without context: init_chat on it returns the context-missing error and
\* creates no turn, and step 2 of a stream on a turn of it emits the
\* context-missing ERROR frame as its only frame and returns, leaving every
\* turn and the model untouched.
C29_EmptyContextIsAbsent ==
  [][/\ \A req \in ChatInitRequests :
          (init_chat(req) /\ get_report_context(req.report_id) = "EMPTY") =>
            /\ qa' = qa
            /\ reply'.code = ContextMissingCode
            /\ reply'.qa_id = 0
     /\ \A p \in Procs :
          (/\ gen[p].pc = "ctx"
           /\ gen'[p] # gen[p]
           /\ gen'[p].pc # "load"
           /\ get_report_context(gen[p].qa_record[1].report_id) = "EMPTY") =>
            /\ gen'[p].pc \in {"end", "raised", "closed"}
            /\ gen'[p].pc = "end" => gen'[p].frames = <<ContextMissingFrame>>
            /\ qa' = qa
            /\ llm_calls' = llm_calls]_vars

\* The context of report 1 became {} after turn 1 was created: a stream on
\* the turn has ended with the context-missing frame, the turn is still
\* PENDING, no model call was made, and an init_chat on report 3, whose
\* context is {}, has just been rejected.
C29_Witness ==
  /\ Len(qa) = 1
  /\ 1 \in DOMAIN reports
  /\ reports[1] = "EMPTY"
  /\ gen["s1"].pc = "end"
  /\ gen["s1"].qa_id = 1
  /\ gen["s1"].frames = <<ContextMissingFrame>>
  /\ qa[1].status = "PENDING"
  /\ llm_calls = 0
  /\ reply.op = "init_chat"
  /\ reply.report_id = 3
  /\ reply.code = ContextMissingCode

\* C30: refresh_token issues no new credential pair for a subject that is
\* soft-deleted or deactivated when the credential is redeemed.
C30_NoRefreshForDisabledSubject ==
  [][\A c \in Clients :
       refresh_create(c) =>
         /\ rf[c].user_id \in DOMAIN users
         /\ users[rf[c].user_id].is_active
         /\ ~users[rf[c].user_id].is_deleted]_vars

\* What holds: login issues no credential for a soft-deleted or
\* deactivated account, and get_current_user refuses the access token of
\* such a subject, the one a refresh has just issued included.
C30_LoginAndBearerRefuseDisabled ==
  [][/\ \A req \in LoginRequests :
          (login(req) /\ auth_reply'.result.code = "ok") =>
            LET u == auth_reply'.result.access_token.sub
            IN  /\ users[u].phone_number = req.phone_number
                /\ users[u].is_active
                /\ ~users[u].is_deleted
     /\ \A c \in Clients :
          (refresh_create(c)
             /\ (~users[rf[c].user_id].is_active \/ users[rf[c].user_id].is_deleted)) =>
            get_current_user(rf'[c].result.access_token.sub) = "system.unauthorized"]_vars

====
